---- MODULE Spec2Model ----
(***************************************************************************)
(* A model of MeshtasticApp (src/meshtastic_ui.py): the window controller  *)
(* that owns a device interface handle, a node list, a visible message     *)
(* log, a text box and the log file "messages.log".                        *)
(*                                                                         *)
(* Text is a sequence of tokens (TLA+ strings): a token is one character   *)
(* or one word of a literal of the program.  The device interface          *)
(* (SerialInterface), the file system and the user are the environment:    *)
(* every call on them may return or raise, and what they return is drawn   *)
(* from the small sets below.  print() in log_message writes to the        *)
(* terminal, which no handler reads back; the model keeps the widget only. *)
(***************************************************************************)
EXTENDS Naturals, Sequences, FiniteSets

\* ------------------------------------------------------------ bounds
\* UI handler invocations plus receive callbacks in one run.
MaxOps == 3

\* ------------------------------------------------------------ text
LF == "\n"
SP == " "

\* str.strip() with no argument removes leading and trailing whitespace.
IsSpace(c) == c \in {SP, LF, "\t", "\r"}

RECURSIVE LStrip(_)
LStrip(s) == IF s # <<>> /\ IsSpace(Head(s)) THEN LStrip(Tail(s)) ELSE s

RECURSIVE RStrip(_)
RStrip(s) ==
    IF s # <<>> /\ IsSpace(s[Len(s)]) THEN RStrip(SubSeq(s, 1, Len(s) - 1)) ELSE s

Strip(s) == RStrip(LStrip(s))

\* file.readlines(): the text cut after every line feed, line feeds kept;
\* a last piece without line feed is a line too.
RECURSIVE ReadLinesFrom(_, _)
ReadLinesFrom(s, cur) ==
    IF s = <<>> THEN (IF cur = <<>> THEN <<>> ELSE <<cur>>)
    ELSE IF Head(s) = LF THEN <<Append(cur, LF)>> \o ReadLinesFrom(Tail(s), <<>>)
    ELSE ReadLinesFrom(Tail(s), Append(cur, Head(s)))

ReadLines(s) == ReadLinesFrom(s, <<>>)

\* str(int) for the non-negative integers the model uses.
DigitStr(d) ==
    CASE d = 0 -> "0" [] d = 1 -> "1" [] d = 2 -> "2" [] d = 3 -> "3" [] d = 4 -> "4"
      [] d = 5 -> "5" [] d = 6 -> "6" [] d = 7 -> "7" [] d = 8 -> "8" [] d = 9 -> "9"

RECURSIVE IntToStr(_)
IntToStr(n) == IF n < 10 THEN <<DigitStr(n)>> ELSE Append(IntToStr(n \div 10), DigitStr(n % 10))

\* chr(cp) for the code points the payloads of the model decode to.
Chr(cp) ==
    CASE cp = 10 -> LF [] cp = 32 -> SP [] cp = 97 -> "a" [] cp = 98 -> "b"
      [] cp = 233 -> "e-acute" [] OTHER -> "?"

\* bytes.decode("utf-8") on one- and two-byte sequences: a byte below 0x80
\* is its own code point, a lead byte 0xC2..0xDF takes one continuation byte
\* 0x80..0xBF, anything else the payloads of the model hold (a lone lead
\* byte, a lone continuation byte, 0xF5..0xFF) raises UnicodeDecodeError.
RECURSIVE Utf8Decode(_)
Utf8Decode(b) ==
    IF b = <<>> THEN [ok |-> TRUE, text |-> <<>>]
    ELSE IF b[1] < 128 THEN
        LET r == Utf8Decode(Tail(b))
        IN  [ok |-> r.ok, text |-> IF r.ok THEN <<Chr(b[1])>> \o r.text ELSE <<>>]
    ELSE IF b[1] >= 194 /\ b[1] <= 223 /\ Len(b) >= 2 /\ b[2] >= 128 /\ b[2] <= 191 THEN
        LET r == Utf8Decode(Tail(Tail(b)))
        IN  [ok |-> r.ok,
             text |-> IF r.ok THEN <<Chr((b[1] - 192) * 64 + (b[2] - 128))>> \o r.text
                      ELSE <<>>]
    ELSE [ok |-> FALSE, text |-> <<>>]

\* ------------------------------------------------------------ the lines logged
Connecting ==
    <<"Connecting", SP, "to", SP, "Meshtastic", SP, "device", SP, "on", SP, "/dev/ttyACM0...">>
Connected == <<"Connected", SP, "to", SP, "Meshtastic", SP, "device!">>
ErrorConnecting(e) == <<"Error", SP, "connecting", SP, "to", SP, "device:", SP>> \o e
NotConnected ==
    <<"Device", SP, "not", SP, "connected.", SP, "Please", SP, "connect", SP, "first.">>
CannotSendEmpty == <<"Cannot", SP, "send", SP, "an", SP, "empty", SP, "message.">>
SentMessage(m) == <<"Sent", SP, "message:", SP>> \o m
NoLogFile == <<"No", SP, "message", SP, "log", SP, "file", SP, "found.">>
ErrorLoading(e) == <<"Error", SP, "loading", SP, "messages:", SP>> \o e
NonTextPacket == <<"Received", SP, "a", SP, "non-text", SP, "packet.">>
MissingKey(k) == <<"Missing", SP, "key", SP, "in", SP, "packet:", SP, "'", k, "'">>
ErrorDecoding == <<"Error", SP, "decoding", SP, "message", SP, "payload.">>
ErrorProcessing(e) == <<"Error", SP, "processing", SP, "message:", SP>> \o e
MessageFrom(sender, message) ==
    <<"Message", SP, "from", SP>> \o IntToStr(sender) \o <<":", SP>> \o message

\* str(e) of what the environment raises.
ExcText(kind) == <<"[", kind, "]">>

\* MeshtasticApp.log_message: the message becomes the last entry of the widget.
log_message(log, message) == Append(log, message)

\* ------------------------------------------------------------ the environment
\* mesh_pb2.PortNum.TEXT_MESSAGE_APP, and the port numbers of other packets.
TEXT_MESSAGE_APP == 1
OtherPortnums == {3}

Senders == {7}

\* Payload bytes: "a", "a\nb", e-acute in UTF-8, and a byte no UTF-8 text holds.
Payloads == {<<97>>, <<97, 10, 98>>, <<195, 169>>, <<255>>}

\* A packet is a dict; has* say which keys it holds (a key that is absent
\* has the placeholder value).
Packets ==
    {p \in [hasDecoded : BOOLEAN, hasPortnum : BOOLEAN,
            portnum : {0, TEXT_MESSAGE_APP} \cup OtherPortnums,
            hasPayload : BOOLEAN, payload : Payloads \cup {<<>>},
            hasFrom : BOOLEAN, from : Senders \cup {0}] :
        /\ (p.hasPortnum \/ p.hasPayload) => p.hasDecoded
        /\ p.hasPortnum <=> p.portnum # 0
        /\ p.hasPayload <=> p.payload # <<>>
        /\ p.hasFrom <=> p.from # 0}

NoPacket ==
    [hasDecoded |-> FALSE, hasPortnum |-> FALSE, portnum |-> 0, hasPayload |-> FALSE,
     payload |-> <<>>, hasFrom |-> FALSE, from |-> 0]

\* repr(bytes), byte by byte.
RECURSIVE BytesRepr(_)
BytesRepr(b) ==
    IF b = <<>> THEN <<>>
    ELSE (IF b[1] = 10 THEN <<"\\n">>
          ELSE IF b[1] >= 32 /\ b[1] < 127 THEN <<Chr(b[1])>>
          ELSE <<"\\x">> \o IntToStr(b[1])) \o BytesRepr(Tail(b))

\* str(packet): the dict's repr, keys in the order decoded, from.
DecodedRepr(p) ==
    <<"{">>
    \o (IF p.hasPortnum THEN <<"'portnum':", SP>> \o IntToStr(p.portnum) ELSE <<>>)
    \o (IF p.hasPortnum /\ p.hasPayload THEN <<",", SP>> ELSE <<>>)
    \o (IF p.hasPayload THEN <<"'payload':", SP, "b'">> \o BytesRepr(p.payload) \o <<"'">>
        ELSE <<>>)
    \o <<"}">>

PacketRepr(p) ==
    <<"{">>
    \o (IF p.hasDecoded THEN <<"'decoded':", SP>> \o DecodedRepr(p) ELSE <<>>)
    \o (IF p.hasDecoded /\ p.hasFrom THEN <<",", SP>> ELSE <<>>)
    \o (IF p.hasFrom THEN <<"'from':", SP>> \o IntToStr(p.from) ELSE <<>>)
    \o <<"}">>

RawPacket(p) == <<"Raw", SP, "packet", SP, "received:", SP>> \o PacketRepr(p)

\* A node of interface.nodes: a dict that may hold "user", which may hold
\* "longName".
Nodes ==
    {[hasUser |-> FALSE, hasLongName |-> FALSE, longName |-> <<>>],
     [hasUser |-> TRUE, hasLongName |-> FALSE, longName |-> <<>>],
     [hasUser |-> TRUE, hasLongName |-> TRUE, longName |-> <<"Al">>]}

NodeIds == {"!a1"}

\* interface.nodes: node id -> node, as the sequence .items() yields.
NodeTables == {<<>>} \cup {<<[id |-> i, node |-> n]>> : i \in NodeIds, n \in Nodes}

\* What the user can have typed into the text box.
Inputs == {<<>>, <<SP>>, <<"a">>, <<SP, "a", SP>>}

\* ------------------------------------------------------------ the state
VARIABLES
    interface,      \* self.interface: 0 is None, h > 0 the h-th handle opened
    handles,        \* per handle opened: [released: the close() calls on it, onReceive]
    calls,          \* the calls made on the device interface, in order
    nodeList,       \* self.node_list: its items
    visibleLog,     \* self.message_list: the entries appended
    messageInput,   \* self.message_input: its text
    fileExists,     \* whether messages.log exists
    fileContent,    \* the text of messages.log
    app,            \* "running", "closed" (the window was closed), "aborted"
    uncaught,       \* the handlers an exception escaped from, in order
    uiPc,           \* where the UI thread is: "idle" or inside load_messages_from_file
    messages,       \* load_messages_from_file: the lines not yet appended
    recvPc,         \* where the receive callback is: "idle", "parse", "write"
    packet,         \* on_message_received: its packet
    parsed_message, \* on_message_received: its parsed_message
    ops,            \* handler invocations and callbacks so far
    prev,           \* the state before the last step
    last,           \* the last step: [op, outcome]
    recvLogged,     \* what the last callback invocation appended to the log
    recvFile0,      \* the file's text when the last callback invocation began
    recvSinceClear  \* what callbacks appended to the log since it was last cleared

vars ==
    <<interface, handles, calls, nodeList, visibleLog, messageInput, fileExists,
      fileContent, app, uncaught, uiPc, messages, recvPc, packet, parsed_message, ops,
      prev, last, recvLogged, recvFile0, recvSinceClear>>

Snapshot ==
    [interface |-> interface, handles |-> handles, calls |-> calls,
     nodeList |-> nodeList, visibleLog |-> visibleLog, messageInput |-> messageInput,
     fileExists |-> fileExists, fileContent |-> fileContent, app |-> app,
     uncaught |-> uncaught, uiPc |-> uiPc, recvPc |-> recvPc]

Step(op, outcome) ==
    /\ prev' = Snapshot
    /\ last' = [op |-> op, outcome |-> outcome]

\* __init__ and initUI: no interface, the placeholder item in the node list,
\* empty log and text box.  The log file may be left from an earlier run.
InitFiles == {<<>>, MessageFrom(7, <<"a">>) \o <<LF>>}

Init ==
    /\ interface = 0
    /\ handles = <<>>
    /\ calls = <<>>
    /\ nodeList = <<<<"Nodes", SP, "will", SP, "appear", SP, "here...">>>>
    /\ visibleLog = <<>>
    /\ messageInput = <<>>
    /\ fileExists \in BOOLEAN
    /\ fileContent \in (IF fileExists THEN InitFiles ELSE {<<>>})
    /\ app = "running"
    /\ uncaught = <<>>
    /\ uiPc = "idle"
    /\ messages = <<>>
    /\ recvPc = "idle"
    /\ packet = NoPacket
    /\ parsed_message = <<>>
    /\ ops = 0
    /\ prev = Snapshot
    /\ last = [op |-> "init", outcome |-> "ok"]
    /\ recvLogged = <<>>
    /\ recvFile0 = <<>>
    /\ recvSinceClear = <<>>

\* ------------------------------------------------------------ helpers of the handlers
\* A guard that lets every value through.
TruthyAlways(i) == TRUE

\* "if self.interface:" -- None is false, an interface object is true.
Truthy(i) == i # 0

DevCall(op, h, text) == [op |-> op, h |-> h, text |-> text]

\* node.get("user", {}).get("longName", "Unknown Node")
NodeName(node) ==
    IF node.hasUser /\ node.hasLongName THEN node.longName ELSE <<"Unknown", SP, "Node">>

\* f"{node_id}: {node_name}"
NodeItem(e) == <<e.id, ":", SP>> \o NodeName(e.node)

RECURSIVE NodeItems(_)
NodeItems(t) == IF t = <<>> THEN <<>> ELSE <<NodeItem(Head(t))>> \o NodeItems(Tail(t))

RECURSIVE NodeLines(_)
NodeLines(t) ==
    IF t = <<>> THEN <<>> ELSE <<<<"Node", SP>> \o NodeItem(Head(t))>> \o NodeLines(Tail(t))

ConnectedNodes == <<"Connected", SP, "Nodes:">>

\* The text box read without strip().
SendTextUnstripped(input) == input

\* message = self.message_input.text().strip()
SendText(input) == Strip(input)

\* A clear() that removes nothing.
ClearedKeeps(log) == log

\* self.message_list.clear()
Cleared(log) == <<>>

\* An exception left the handler: PyQt5 either prints the traceback and
\* returns to the event loop or aborts the process, by its version.
Escapes(handler, after) ==
    /\ uncaught' = Append(uncaught, handler)
    /\ app' \in {after, "aborted"}

UiReady == app = "running" /\ uiPc = "idle" /\ ops < MaxOps

\* ------------------------------------------------------------ the UI handlers
\* The user edits the text box.
SetInput ==
    /\ UiReady
    /\ \E t \in Inputs \ {messageInput} : messageInput' = t
    /\ ops' = ops + 1
    /\ Step("SetInput", "ok")
    /\ UNCHANGED <<interface, handles, calls, nodeList, visibleLog, fileExists,
                   fileContent, app, uncaught, uiPc, messages, recvPc, packet,
                   parsed_message, recvLogged, recvFile0, recvSinceClear>>

\* connect_to_device: SerialInterface(...) raises.
ConnectOpenFails ==
    /\ calls' = Append(calls, DevCall("SerialInterface", 0, <<"/dev/ttyACM0">>))
    /\ visibleLog' = log_message(log_message(visibleLog, Connecting),
                                 ErrorConnecting(ExcText("SerialException")))
    /\ Step("connect_to_device", "open_failed")
    /\ UNCHANGED <<interface, handles, nodeList>>

\* connect_to_device: the handle is stored and the callback registered; then
\* output_nodes reads interface.nodes, which raises or yields a table.
ConnectOpened ==
    LET h == Len(handles) + 1
        opened == Append(calls, DevCall("SerialInterface", h, <<"/dev/ttyACM0">>))
    IN  /\ handles' = Append(handles, [released |-> 0, onReceive |-> TRUE])
        /\ interface' = h
        /\ calls' = Append(opened, DevCall("nodes", h, <<>>))
        /\ \/ /\ nodeList' = <<ConnectedNodes>>
              /\ visibleLog' = log_message(log_message(visibleLog, Connecting),
                                           ErrorConnecting(ExcText("AttributeError")))
              /\ Step("connect_to_device", "nodes_failed")
           \/ \E t \in NodeTables :
                /\ nodeList' = <<ConnectedNodes>> \o NodeItems(t)
                /\ visibleLog' = log_message(log_message(visibleLog, Connecting)
                                             \o NodeLines(t), Connected)
                /\ Step("connect_to_device", "connected")

connect_to_device ==
    /\ UiReady
    /\ ConnectOpenFails \/ ConnectOpened
    /\ ops' = ops + 1
    /\ UNCHANGED <<messageInput, fileExists, fileContent, app, uncaught, uiPc, messages,
                   recvPc, packet, parsed_message, recvLogged, recvFile0, recvSinceClear>>

\* output_nodes, called on its own: no button is wired to it, so what it
\* raises goes to its caller and not to the event loop.
output_nodes ==
    /\ UiReady
    /\ ops' = ops + 1
    /\ IF Truthy(interface)
       THEN /\ calls' = Append(calls, DevCall("nodes", interface, <<>>))
            /\ \/ /\ nodeList' = <<ConnectedNodes>>
                  /\ uncaught' = Append(uncaught, "output_nodes")
                  /\ Step("output_nodes", "nodes_failed")
                  /\ UNCHANGED <<visibleLog, app>>
               \/ \E t \in NodeTables :
                    /\ nodeList' = <<ConnectedNodes>> \o NodeItems(t)
                    /\ visibleLog' = visibleLog \o NodeLines(t)
                    /\ Step("output_nodes", "listed")
                    /\ UNCHANGED <<app, uncaught>>
       ELSE /\ visibleLog' = log_message(visibleLog, NotConnected)
            /\ Step("output_nodes", "not_connected")
            /\ UNCHANGED <<calls, nodeList, app, uncaught>>
    /\ UNCHANGED <<interface, handles, messageInput, fileExists, fileContent, uiPc,
                   messages, recvPc, packet, parsed_message, recvLogged, recvFile0, recvSinceClear>>

\* send_message
send_message ==
    /\ UiReady
    /\ ops' = ops + 1
    /\ IF Truthy(interface)
       THEN LET message == SendText(messageInput)
            IN  IF message # <<>>
                THEN /\ calls' = Append(calls, DevCall("sendText", interface, message))
                     /\ \/ /\ visibleLog' = log_message(visibleLog, SentMessage(message))
                           /\ messageInput' = <<>>
                           /\ Step("send_message", "sent")
                           /\ UNCHANGED <<app, uncaught>>
                        \/ /\ Escapes("send_message", "running")
                           /\ Step("send_message", "send_failed")
                           /\ UNCHANGED <<visibleLog, messageInput>>
                ELSE /\ visibleLog' = log_message(visibleLog, CannotSendEmpty)
                     /\ Step("send_message", "empty")
                     /\ UNCHANGED <<calls, messageInput, app, uncaught>>
       ELSE /\ visibleLog' = log_message(visibleLog, NotConnected)
            /\ Step("send_message", "not_connected")
            /\ UNCHANGED <<calls, messageInput, app, uncaught>>
    /\ UNCHANGED <<interface, handles, nodeList, fileExists, fileContent, uiPc, messages,
                   recvPc, packet, parsed_message, recvLogged, recvFile0, recvSinceClear>>

\* closeEvent: the window closes and the event loop ends.
closeEvent ==
    /\ UiReady
    /\ ops' = ops + 1
    /\ IF Truthy(interface)
       THEN /\ calls' = Append(calls, DevCall("close", interface, <<>>))
            /\ handles' = [h \in DOMAIN handles |->
                              IF h = interface
                              THEN [handles[h] EXCEPT !.released = @ + 1]
                              ELSE handles[h]]
            /\ \/ /\ app' = "closed"
                  /\ Step("closeEvent", "released")
                  /\ UNCHANGED uncaught
               \/ /\ Escapes("closeEvent", "closed")
                  /\ Step("closeEvent", "close_failed")
       ELSE /\ app' = "closed"
            /\ Step("closeEvent", "nothing_held")
            /\ UNCHANGED <<calls, handles, uncaught>>
    /\ UNCHANGED <<interface, nodeList, visibleLog, messageInput, fileExists, fileContent,
                   uiPc, messages, recvPc, packet, parsed_message, recvLogged, recvFile0, recvSinceClear>>

\* load_messages_from_file, first statement: the widget is cleared.
load_clear ==
    /\ UiReady
    /\ ops' = ops + 1
    /\ visibleLog' = Cleared(visibleLog)
    /\ uiPc' = "load_open"
    /\ recvSinceClear' = <<>>
    /\ Step("load_messages_from_file", "cleared")
    /\ UNCHANGED <<interface, handles, calls, nodeList, messageInput, fileExists,
                   fileContent, app, uncaught, messages, recvPc, packet, parsed_message,
                   recvLogged, recvFile0>>

\* load_messages_from_file: open(self.log_file, "r") and readlines(), or the
\* except clause that reports why not.
load_open ==
    /\ app = "running"
    /\ uiPc = "load_open"
    /\ IF ~fileExists
       THEN /\ visibleLog' = log_message(visibleLog, NoLogFile)
            /\ uiPc' = "idle"
            /\ Step("load_messages_from_file", "no_file")
            /\ UNCHANGED messages
       ELSE \/ /\ visibleLog' = log_message(visibleLog, ErrorLoading(ExcText("PermissionError")))
               /\ uiPc' = "idle"
               /\ Step("load_messages_from_file", "read_failed")
               /\ UNCHANGED messages
            \/ /\ messages' = ReadLines(fileContent)
               /\ uiPc' = IF messages' = <<>> THEN "idle" ELSE "load_append"
               /\ Step("load_messages_from_file", "read")
               /\ UNCHANGED visibleLog
    /\ UNCHANGED <<interface, handles, calls, nodeList, messageInput, fileExists,
                   fileContent, app, uncaught, recvPc, packet, parsed_message, ops,
                   recvLogged, recvFile0, recvSinceClear>>

\* load_messages_from_file: one turn of the loop over the lines read.
load_append ==
    /\ app = "running"
    /\ uiPc = "load_append"
    /\ visibleLog' = Append(visibleLog, Strip(Head(messages)))
    /\ messages' = Tail(messages)
    /\ uiPc' = IF messages' = <<>> THEN "idle" ELSE "load_append"
    /\ Step("load_messages_from_file", "appended")
    /\ UNCHANGED <<interface, handles, calls, nodeList, messageInput, fileExists,
                   fileContent, app, uncaught, recvPc, packet, parsed_message, ops,
                   recvLogged, recvFile0, recvSinceClear>>

\* ------------------------------------------------------------ the receive callback
\* The library delivers packets through the callback of a handle that is
\* open, on its own thread: the steps below interleave with the UI handlers.
Delivering == \E h \in 1..Len(handles) : handles[h].onReceive /\ handles[h].released = 0

RecvLog(line) ==
    /\ visibleLog' = log_message(visibleLog, line)
    /\ recvLogged' = Append(recvLogged, line)
    /\ recvSinceClear' = Append(recvSinceClear, line)

\* The line without its "Message from " prefix.
ParsedMessageBare(sender, message) == IntToStr(sender) \o <<":", SP>> \o message

\* parsed_message = f"Message from {sender}: {message}"
ParsedMessage(sender, message) == MessageFrom(sender, message)

\* The try block with packet["from"] read before the payload is decoded.
ParseSenderFirst(p) ==
    IF ~p.hasDecoded THEN [kind |-> "KeyError", line |-> MissingKey("decoded")]
    ELSE IF ~p.hasPortnum THEN [kind |-> "KeyError", line |-> MissingKey("portnum")]
    ELSE IF p.portnum # TEXT_MESSAGE_APP THEN [kind |-> "non_text", line |-> NonTextPacket]
    ELSE IF ~p.hasPayload THEN [kind |-> "KeyError", line |-> MissingKey("payload")]
    ELSE IF ~p.hasFrom THEN [kind |-> "KeyError", line |-> MissingKey("from")]
    ELSE IF ~Utf8Decode(p.payload).ok
        THEN [kind |-> "UnicodeDecodeError", line |-> ErrorDecoding]
    ELSE [kind |-> "text", line |-> ParsedMessage(p.from, Utf8Decode(p.payload).text)]

\* What the try block does with the packet up to log_message(parsed_message),
\* or the except clause it ends in: [kind, line].
Parse(p) ==
    IF ~p.hasDecoded THEN [kind |-> "KeyError", line |-> MissingKey("decoded")]
    ELSE IF ~p.hasPortnum THEN [kind |-> "KeyError", line |-> MissingKey("portnum")]
    ELSE IF p.portnum # TEXT_MESSAGE_APP THEN [kind |-> "non_text", line |-> NonTextPacket]
    ELSE IF ~p.hasPayload THEN [kind |-> "KeyError", line |-> MissingKey("payload")]
    ELSE IF ~Utf8Decode(p.payload).ok
        THEN [kind |-> "UnicodeDecodeError", line |-> ErrorDecoding]
    ELSE IF ~p.hasFrom THEN [kind |-> "KeyError", line |-> MissingKey("from")]
    ELSE [kind |-> "text", line |-> ParsedMessage(p.from, Utf8Decode(p.payload).text)]

\* log_file.write(parsed_message + "\n") on a file opened with "a".
Written(content, text) == content \o text \o <<LF>>

\* on_message_received is called: the raw packet is logged.
recv_begin ==
    /\ app = "running"
    /\ recvPc = "idle"
    /\ ops < MaxOps
    /\ Delivering
    /\ \E p \in Packets :
        /\ packet' = p
        /\ visibleLog' = log_message(visibleLog, RawPacket(p))
        /\ recvLogged' = <<RawPacket(p)>>
        /\ recvSinceClear' = Append(recvSinceClear, RawPacket(p))
    /\ recvFile0' = fileContent
    /\ recvPc' = "parse"
    /\ ops' = ops + 1
    /\ Step("on_message_received", "raw")
    /\ UNCHANGED <<interface, handles, calls, nodeList, messageInput, fileExists,
                   fileContent, app, uncaught, uiPc, messages, parsed_message>>

\* on_message_received: the packet is inspected and the result logged.
recv_parse ==
    /\ app = "running"
    /\ recvPc = "parse"
    /\ LET r == Parse(packet)
       IN  /\ RecvLog(r.line)
           /\ parsed_message' = IF r.kind = "text" THEN r.line ELSE <<>>
           /\ recvPc' = IF r.kind = "text" THEN "write" ELSE "idle"
           /\ Step("on_message_received", r.kind)
    /\ UNCHANGED <<interface, handles, calls, nodeList, messageInput, fileExists,
                   fileContent, app, uncaught, uiPc, messages, packet, ops, recvFile0>>

\* on_message_received: the line is appended to the log file; open() may
\* raise, and so may write() after open() has created the file.
recv_write ==
    /\ app = "running"
    /\ recvPc = "write"
    /\ \/ /\ fileExists' = TRUE
          /\ fileContent' = Written(fileContent, parsed_message)
          /\ Step("on_message_received", "written")
          /\ UNCHANGED <<visibleLog, recvLogged, recvSinceClear>>
       \/ /\ RecvLog(ErrorProcessing(ExcText("PermissionError")))
          /\ Step("on_message_received", "open_failed")
          /\ UNCHANGED <<fileExists, fileContent>>
       \/ /\ fileExists' = TRUE
          /\ RecvLog(ErrorProcessing(ExcText("OSError")))
          /\ Step("on_message_received", "write_failed")
          /\ UNCHANGED fileContent
    /\ recvPc' = "idle"
    /\ UNCHANGED <<interface, handles, calls, nodeList, messageInput, app, uncaught, uiPc,
                   messages, packet, parsed_message, ops, recvFile0>>

\* ------------------------------------------------------------ the specification
Next ==
    \/ SetInput
    \/ connect_to_device
    \/ output_nodes
    \/ send_message
    \/ closeEvent
    \/ load_clear
    \/ load_open
    \/ load_append
    \/ recv_begin
    \/ recv_parse
    \/ recv_write

Spec == Init /\ [][Next]_vars

\* ------------------------------------------------------------ the claims
IsPrefix(s, t) == Len(s) <= Len(t) /\ SubSeq(t, 1, Len(s)) = s

OpenHandles == {h \in 1..Len(handles) : handles[h].released = 0}

\* A callback invocation has just returned.
RecvReturned == last.op = "on_message_received" /\ recvPc = "idle"

\* The packet is a text message with a payload that decodes, and names its sender.
TextPacket(p) ==
    /\ p.hasDecoded /\ p.hasPortnum /\ p.portnum = TEXT_MESSAGE_APP
    /\ p.hasPayload /\ Utf8Decode(p.payload).ok /\ p.hasFrom

\* The packet lacks one of the keys decoded, portnum, payload, from, or its
\* payload does not decode.
Defective(p) ==
    \/ ~p.hasDecoded \/ ~p.hasPortnum \/ ~p.hasPayload \/ ~p.hasFrom
    \/ ~Utf8Decode(p.payload).ok

\* C1 (as stated): the handles opened and not yet released are never more than one.
C1_AtMostOneOpenHandle == Cardinality(OpenHandles) <= 1

\* C2 (as stated): a callback invocation for a decodable text packet has appended
\* exactly one line to the visible log, "Message from {sender}: {message}", and
\* exactly one line to the log file.
C2_OneLineInLogAndFile ==
    (RecvReturned /\ TextPacket(packet)) =>
        /\ recvLogged = <<MessageFrom(packet.from, Utf8Decode(packet.payload).text)>>
        /\ Len(ReadLines(fileContent)) = Len(ReadLines(recvFile0)) + 1

\* C2 (amended): a callback invocation for a decodable text packet has appended
\* to the visible log the raw-packet line and then "Message from {sender}:
\* {message}"; if the file was written, the file grew by exactly that text and
\* one line feed (one line when the message holds no line feed) and nothing
\* else was logged; if open() or write() raised, the file's text is as before
\* and "Error processing message: ..." is the third line logged.
C2_RawThenMessage ==
    (RecvReturned /\ TextPacket(packet)) =>
        LET text == Utf8Decode(packet.payload).text
            m == MessageFrom(packet.from, text)
        IN  /\ Len(recvLogged) >= 2
            /\ recvLogged[1] = RawPacket(packet)
            /\ recvLogged[2] = m
            /\ IF last.outcome = "written"
               THEN /\ Len(recvLogged) = 2
                    /\ fileExists
                    /\ fileContent = recvFile0 \o m \o <<LF>>
                    /\ (\A i \in 1..Len(text) : text[i] # LF) =>
                           Len(ReadLines(fileContent)) = Len(ReadLines(recvFile0)) + 1
               ELSE /\ Len(recvLogged) = 3
                    /\ IsPrefix(<<"Error", SP, "processing", SP, "message:">>, recvLogged[3])
                    /\ fileContent = recvFile0

C2_Witness ==
    /\ RecvReturned /\ TextPacket(packet) /\ last.outcome = "written"
    /\ packet.payload = <<195, 169>>
    /\ recvFile0 # <<>>

\* C3: a send with the text box empty or all whitespace makes no call on the
\* device and appends one refusal line: "Cannot send an empty message." when
\* an interface is held, "Device not connected. Please connect first." when not.
C3_EmptySendRefused ==
    (last.op = "send_message"
     /\ \A i \in 1..Len(prev.messageInput) : IsSpace(prev.messageInput[i])) =>
        /\ calls = prev.calls
        /\ visibleLog = Append(prev.visibleLog,
                               IF prev.interface # 0 THEN CannotSendEmpty ELSE NotConnected)

C3_Witness ==
    /\ last.op = "send_message"
    /\ prev.messageInput = <<SP>>
    /\ prev.interface # 0
    /\ visibleLog[Len(visibleLog)] = CannotSendEmpty

\* C4 (as stated): a callback invocation for a packet that lacks an expected key
\* or has an undecodable payload has appended exactly one line to the visible log.
C4_OneFailureLine == (RecvReturned /\ Defective(packet)) => Len(recvLogged) = 1

\* The line the callback logs for a defective packet: the first key it reads
\* and does not find, or the decoding error; a packet of another port is
\* reported as non-text, its payload and sender are not read.
FailureLine(p) ==
    IF ~p.hasDecoded THEN MissingKey("decoded")
    ELSE IF ~p.hasPortnum THEN MissingKey("portnum")
    ELSE IF p.portnum # TEXT_MESSAGE_APP THEN NonTextPacket
    ELSE IF ~p.hasPayload THEN MissingKey("payload")
    ELSE IF ~Utf8Decode(p.payload).ok THEN ErrorDecoding
    ELSE MissingKey("from")

\* C4 (amended): a callback invocation for such a packet has appended exactly
\* two lines to the visible log, the raw-packet line and then one line that
\* names the missing key or the decoding error (or, for a packet of another
\* port, "Received a non-text packet."); it returned, no exception escaped and
\* the log file is untouched.
C4_RawThenFailureLine ==
    (RecvReturned /\ Defective(packet)) =>
        /\ recvLogged = <<RawPacket(packet), FailureLine(packet)>>
        /\ fileContent = recvFile0
        /\ fileExists = prev.fileExists
        /\ uncaught = prev.uncaught
        /\ app = "running"

C4_Witness ==
    /\ RecvReturned
    /\ packet.hasPayload /\ Utf8Decode(packet.payload).ok /\ ~packet.hasFrom
    /\ packet.portnum = TEXT_MESSAGE_APP
    /\ recvLogged[2] = MissingKey("from")

\* The handlers Qt or the library calls.
Handlers ==
    {"connect_to_device", "send_message", "load_messages_from_file",
     "on_message_received", "closeEvent"}

\* C5 (as stated): no exception escapes a handler, and the application goes on.
C5_NoExceptionEscapes ==
    /\ \A i \in 1..Len(uncaught) : uncaught[i] \notin Handlers
    /\ app # "aborted"

\* C6 (as stated): once the window is closed, every handle that was opened has
\* had close() called on it exactly once.
C6_EveryHandleReleasedOnce ==
    app = "closed" => \A h \in 1..Len(handles) : handles[h].released = 1

\* C7 (as stated): a load that finds no log file leaves the visible log empty.
C7_LogLeftEmpty ==
    (last.op = "load_messages_from_file" /\ last.outcome = "no_file") => visibleLog = <<>>

\* C7 (amended): a load that finds no log file has discarded what the visible
\* log held before it and appended "No message log file found." as the last
\* line; that line is preceded only by what a callback logged during the load.
C7_OnlyNoFileLine ==
    (last.op = "load_messages_from_file" /\ last.outcome = "no_file") =>
        visibleLog = recvSinceClear \o <<NoLogFile>>

C7_Witness ==
    /\ last.op = "load_messages_from_file" /\ last.outcome = "no_file"
    /\ calls # <<>>
    /\ visibleLog = <<NoLogFile>>

\* C8: with no interface held, send and list-nodes make no call on the device,
\* leave the node list, the text box and the log file as they were and append
\* exactly one line, "Device not connected. Please connect first.".
C8_DisconnectedFrame ==
    (last.op \in {"send_message", "output_nodes"} /\ prev.interface = 0) =>
        /\ calls = prev.calls
        /\ nodeList = prev.nodeList
        /\ messageInput = prev.messageInput
        /\ fileExists = prev.fileExists
        /\ fileContent = prev.fileContent
        /\ visibleLog = Append(prev.visibleLog, NotConnected)

C8_Witness ==
    /\ last.op = "send_message"
    /\ prev.interface = 0
    /\ prev.messageInput = <<SP, "a", SP>>
    /\ prev.visibleLog # <<>>

\* C9 (as stated): every step leaves the old file text a prefix of the new; only
\* the callback's write changes it, by exactly one whole line.
C9_AppendOnlyOneLine ==
    /\ IsPrefix(prev.fileContent, fileContent)
    /\ fileContent # prev.fileContent =>
        /\ last.op = "on_message_received"
        /\ fileContent[Len(fileContent)] = LF
        /\ Len(ReadLines(fileContent)) = Len(ReadLines(prev.fileContent)) + 1

\* C10 (as stated): a connect that reports "Error connecting to device" leaves
\* the interface and the registered callbacks as they were before it.
C10_FailedConnectChangesNothing ==
    (last.op = "connect_to_device"
     /\ IsPrefix(<<"Error", SP, "connecting">>, visibleLog[Len(visibleLog)])) =>
        /\ interface = prev.interface
        /\ handles = prev.handles

====
